---- MODULE Spec2Model ----
(***************************************************************************)
(* The RSS endpoint of the blog: src/pages/rss.xml.ts.  GET awaits the     *)
(* "posts" content collection, maps every post to a feed item and hands    *)
(* the feed payload to the rss() builder.  The content collection, the     *)
(* request context and the rss() builder are the host framework's; the     *)
(* model draws the collection and the context from small sets and records  *)
(* the payload rss() is called with.                                       *)
(***************************************************************************)
EXTENDS Integers, Sequences, FiniteSets, TLC

\* Longest collection the lookup returns, and the number of GET invocations
\* that may be in flight or finished at the same time.
MaxPosts == 2
NumInv == 2

Invocations == 1..NumInv

(***************************************************************************)
(* JavaScript values.  An object is a function from its own keys to        *)
(* values; reading a key the object does not have yields undefined.        *)
(***************************************************************************)
Undefined == "undefined"

Has(obj, key) == key \in DOMAIN obj

Get(obj, key) == IF Has(obj, key) THEN obj[key] ELSE Undefined

(***************************************************************************)
(* The site configuration (yukina.config.ts): the three fields a feed could *)
(* take from it.  GET does not import it.  The dash of the description is   *)
(* written in ASCII.                                                        *)
(***************************************************************************)
YukinaConfig ==
    [title |-> "Hamim's Blog",
     description |-> "Personal blog by Hamim - covering code, backend architecture, frontend ideas, and tech insights.",
     site |-> "https://seracoder.com"]

\* The request contexts the host framework may pass: context.site.
Contexts ==
    {[site |-> "https://seracoder.com"], [site |-> "http://localhost:4321"]}

(***************************************************************************)
(* Post records, as the content collection hands them over: an id and the  *)
(* frontmatter in data.  Dates are written yyyymmdd.  PostA and PostB are   *)
(* the records of the documented example, PostRapidoc is a post of the     *)
(* repository; the others cover the optional fields: a tag equal to the    *)
(* category, an empty tags list, a missing category together with an id    *)
(* that is already taken, a draft with a cover (PostA otherwise), and a    *)
(* record with neither category, tags nor author.                          *)
(***************************************************************************)
PostA ==
    [id |-> "a",
     data |-> [title |-> "Post A", published |-> 20240101,
               description |-> "Desc A", category |-> "Python",
               tags |-> <<"x", "y">>, author |-> "Md hamim", draft |-> FALSE]]

PostB ==
    [id |-> "b",
     data |-> [title |-> "Post B", published |-> 20240201,
               description |-> "Desc B", category |-> "JS"]]

PostRapidoc ==
    [id |-> "adding-rapidoc-documentation-to-your-fastapi-application",
     data |-> [title |-> "Adding RapiDoc Documentation to FastAPI",
               published |-> 20250505,
               description |-> "Enhance your FastAPI documentation with RapiDoc",
               tags |-> <<"fastapi", "rapidoc">>, category |-> "Python",
               author |-> "Md hamim", draft |-> FALSE,
               cover |-> "/covers/rapidoc-fastapi.webp"]]

PostTagIsCategory ==
    [id |-> "c",
     data |-> [title |-> "A post", published |-> 20231223,
               description |-> "Desc C", category |-> "Python",
               tags |-> <<"Python", "x">>, author |-> "Md hamim",
               draft |-> FALSE]]

PostEmptyTags ==
    [id |-> "d",
     data |-> [title |-> "Post D", published |-> 20240101,
               description |-> "Desc D", category |-> "JS",
               tags |-> <<>>, draft |-> FALSE]]

PostNoCategory ==
    [id |-> "a",
     data |-> [title |-> "Post E", published |-> 20240301,
               description |-> "Desc E", tags |-> <<"x">>,
               author |-> "Someone else", draft |-> FALSE]]

PostADraft ==
    [id |-> "a",
     data |-> [title |-> "Post A", published |-> 20240101,
               description |-> "Desc A", category |-> "Python",
               tags |-> <<"x", "y">>, author |-> "Md hamim", draft |-> TRUE,
               cover |-> "/covers/post-a.webp"]]

PostBare ==
    [id |-> "e",
     data |-> [title |-> "Post F", published |-> 20240401,
               description |-> "Desc F"]]

PostPool ==
    {PostA, PostB, PostRapidoc, PostTagIsCategory, PostEmptyTags,
     PostNoCategory, PostADraft, PostBare}

ServedPool == {PostA, PostB}

CollectionsOf(pool) == UNION {[1..n -> pool] : n \in 0..MaxPosts}

\* What getCollection("posts") may resolve with.
PostCollections == CollectionsOf(PostPool)

ServedCollections == CollectionsOf(ServedPool)

(***************************************************************************)
(* The mapping of GET (rss.xml.ts, lines 7-22).                            *)
(***************************************************************************)
\* The link built from a frontmatter slug the posts do not have:
\* `/posts/${post.data.slug}`.
LinkFromSlug(post) == "/posts/" \o Get(post.data, "slug")

\* A link with a trailing slash.
LinkTrailingSlash(post) == "/posts/" \o post.id \o "/"

\* `/posts/${post.id}`
LinkOf(post) == "/posts/" \o post.id

\* post.data.tags ? [...] : [...]  -- an array, even an empty one, is truthy;
\* undefined is not.
TagsTruthy(post) == Has(post.data, "tags")

\* The category put last: [...post.data.tags, post.data.category].
CategoriesTagsFirst(post) ==
    IF TagsTruthy(post)
    THEN post.data.tags \o <<Get(post.data, "category")>>
    ELSE <<Get(post.data, "category")>>

\* No fallback when tags is falsy: tags ? [category, ...tags] : [].
CategoriesNoFallback(post) ==
    IF TagsTruthy(post)
    THEN <<Get(post.data, "category")>> \o post.data.tags
    ELSE <<>>

\* Labels made unique: the tags equal to the category are dropped.
CategoriesUnique(post) ==
    IF TagsTruthy(post)
    THEN <<Get(post.data, "category")>>
         \o SelectSeq(post.data.tags, LAMBDA t : t # Get(post.data, "category"))
    ELSE <<Get(post.data, "category")>>

\* post.data.tags ? [post.data.category, ...post.data.tags] : [post.data.category]
Categories(post) ==
    IF TagsTruthy(post)
    THEN <<Get(post.data, "category")>> \o post.data.tags
    ELSE <<Get(post.data, "category")>>

\* The description taken from the title.
EntryTitleAsDescription(post) ==
    [title |-> Get(post.data, "title"),
     pubDate |-> Get(post.data, "published"),
     link |-> LinkOf(post),
     description |-> Get(post.data, "title"),
     category |-> Get(post.data, "category"),
     author |-> Get(post.data, "author"),
     categories |-> Categories(post)]

\* A missing category defaulted: post.data.category ?? "Uncategorized".
EntryDefaultCategory(post) ==
    [title |-> Get(post.data, "title"),
     pubDate |-> Get(post.data, "published"),
     link |-> LinkOf(post),
     description |-> Get(post.data, "description"),
     category |-> IF Has(post.data, "category")
                  THEN post.data.category ELSE "Uncategorized",
     author |-> Get(post.data, "author"),
     categories |-> Categories(post)]

\* A missing author replaced by the site owner (username of yukina.config.ts).
EntryOwnerAsAuthor(post) ==
    [title |-> Get(post.data, "title"),
     pubDate |-> Get(post.data, "published"),
     link |-> LinkOf(post),
     description |-> Get(post.data, "description"),
     category |-> Get(post.data, "category"),
     author |-> IF Has(post.data, "author") THEN post.data.author ELSE "Hamim",
     categories |-> Categories(post)]

\* The entry without its author line.
EntryNoAuthor(post) ==
    [title |-> Get(post.data, "title"),
     pubDate |-> Get(post.data, "published"),
     link |-> LinkOf(post),
     description |-> Get(post.data, "description"),
     category |-> Get(post.data, "category"),
     categories |-> Categories(post)]

\* The object literal of the map callback.
Entry(post) ==
    [title |-> Get(post.data, "title"),
     pubDate |-> Get(post.data, "published"),
     link |-> LinkOf(post),
     description |-> Get(post.data, "description"),
     category |-> Get(post.data, "category"),
     author |-> Get(post.data, "author"),
     categories |-> Categories(post)]

\* Drafts filtered out before the map.
IsDraft(post) == Has(post.data, "draft") /\ post.data.draft

ItemsNoDrafts(list) ==
    LET kept == SelectSeq(list, LAMBDA p : ~IsDraft(p))
    IN  [k \in 1..Len(kept) |-> Entry(kept[k])]

\* One categories array declared outside the callback and pushed to by every
\* record: each entry carries the labels of the records before it as well.
RECURSIVE RunningCategories(_, _)
RunningCategories(list, k) ==
    IF k = 0 THEN <<>>
    ELSE RunningCategories(list, k - 1) \o Categories(list[k])

ItemsSharedCategories(list) ==
    [k \in 1..Len(list) |->
        [Entry(list[k]) EXCEPT !.categories = RunningCategories(list, k)]]

\* Deduplicated by id before the map: the first record of each id is kept.
RECURSIVE UniqueIds(_, _)
UniqueIds(list, seen) ==
    IF list = <<>> THEN <<>>
    ELSE IF Head(list).id \in seen
         THEN UniqueIds(Tail(list), seen)
         ELSE <<Head(list)>> \o UniqueIds(Tail(list), seen \cup {Head(list).id})

ItemsUniqueIds(list) ==
    LET kept == UniqueIds(list, {})
    IN  [k \in 1..Len(kept) |-> Entry(kept[k])]

\* Newest first: the posts sorted by published, descending, before the map.
RECURSIVE InsertByDate(_, _)
InsertByDate(post, sorted) ==
    IF sorted = <<>> THEN <<post>>
    ELSE IF post.data.published > Head(sorted).data.published
         THEN <<post>> \o sorted
         ELSE <<Head(sorted)>> \o InsertByDate(post, Tail(sorted))

RECURSIVE SortByDate(_)
SortByDate(list) ==
    IF list = <<>> THEN <<>>
    ELSE InsertByDate(Head(list), SortByDate(Tail(list)))

ItemsNewestFirst(list) ==
    LET sorted == SortByDate(list)
    IN  [k \in 1..Len(sorted) |-> Entry(sorted[k])]

\* posts.map((post) => ({...}))
Items(list) == [k \in 1..Len(list) |-> Entry(list[k])]

\* Absolute links: the site of the request put in front of every link.
FeedPayloadAbsoluteLinks(context, list) ==
    [title |-> "a",
     description |-> "a",
     site |-> context.site,
     items |-> [k \in 1..Len(list) |->
                   [Entry(list[k]) EXCEPT !.link = context.site \o @]]]

\* Title and description taken from the site configuration.
FeedPayloadFromConfig(context, list) ==
    [title |-> YukinaConfig.title,
     description |-> YukinaConfig.description,
     site |-> context.site,
     items |-> Items(list)]

\* The site taken from the site configuration instead of the request.
FeedPayloadConfigSite(context, list) ==
    [title |-> "a",
     description |-> "a",
     site |-> YukinaConfig.site,
     items |-> Items(list)]

\* The argument of rss({...}).
FeedPayload(context, list) ==
    [title |-> "a",
     description |-> "a",
     site |-> context.site,
     items |-> Items(list)]

(***************************************************************************)
(* State: one slot per invocation of GET.                                  *)
(*   pc       where the invocation stands: idle (not called), await        *)
(*            (suspended at the await of getCollection), done (rss() was   *)
(*            called and its result returned), failed (the lookup threw)   *)
(*   ctx      the context GET was called with                              *)
(*   posts    what the lookup resolved with                                *)
(*   lookups  the collection names getCollection was called with           *)
(*   built    the payloads rss() was called with                           *)
(*   returned how the lookup settled, as the collection store produced it: *)
(*            pending, a collection, or an error                           *)
(*   thrown   the errors GET's promise rejected with                       *)
(* posts is GET's binding of the array the lookup resolved with, as that   *)
(* array stands when GET is through with it.                               *)
(***************************************************************************)
VARIABLES pc, ctx, posts, lookups, built, returned, thrown

vars == <<pc, ctx, posts, lookups, built, returned, thrown>>

NoContext == [site |-> Undefined]

Pending == [kind |-> "pending"]

Resolved(P) == [kind |-> "value", value |-> P]

Rejected(e) == [kind |-> "error", error |-> e]

\* What a failing lookup may reject with.
LookupErrors == {"UnknownCollection", "ContentStoreUnavailable"}

Init ==
    /\ pc = [i \in Invocations |-> "idle"]
    /\ ctx = [i \in Invocations |-> NoContext]
    /\ posts = [i \in Invocations |-> <<>>]
    /\ lookups = [i \in Invocations |-> <<>>]
    /\ built = [i \in Invocations |-> <<>>]
    /\ returned = [i \in Invocations |-> Pending]
    /\ thrown = [i \in Invocations |-> <<>>]

\* The feed built before the lookup has settled, from no records.
InvokeBuildFirst(i, context) ==
    /\ pc[i] = "idle"
    /\ pc' = [pc EXCEPT ![i] = "await"]
    /\ ctx' = [ctx EXCEPT ![i] = context]
    /\ lookups' = [lookups EXCEPT ![i] = Append(@, "posts")]
    /\ built' = [built EXCEPT ![i] = Append(@, FeedPayload(context, <<>>))]
    /\ UNCHANGED <<posts, returned, thrown>>

\* GET(context) is called and runs up to the await: getCollection("posts").
Invoke(i, context) ==
    /\ pc[i] = "idle"
    /\ pc' = [pc EXCEPT ![i] = "await"]
    /\ ctx' = [ctx EXCEPT ![i] = context]
    /\ lookups' = [lookups EXCEPT ![i] = Append(@, "posts")]
    /\ UNCHANGED <<posts, built, returned, thrown>>

\* The context kept in a module-level variable that a later call overwrites
\* while this one is suspended.
SharedContext(i) ==
    IF \E j \in Invocations \ {i} : pc[j] = "await"
    THEN ctx[CHOOSE j \in Invocations \ {i} : pc[j] = "await"]
    ELSE ctx[i]

LookupResolveSharedContext(i, P) ==
    /\ pc[i] = "await"
    /\ posts' = [posts EXCEPT ![i] = P]
    /\ built' = [built EXCEPT ![i] = Append(@, FeedPayload(SharedContext(i), P))]
    /\ pc' = [pc EXCEPT ![i] = "done"]
    /\ returned' = [returned EXCEPT ![i] = Resolved(P)]
    /\ UNCHANGED <<ctx, lookups, thrown>>

\* The items memoised at module level: computed by the first invocation and
\* reused while it is held.
CachedItems(i, P) ==
    LET holders == {j \in Invocations \ {i} : built[j] # <<>>}
    IN  IF holders # {}
        THEN built[CHOOSE j \in holders : TRUE][1].items
        ELSE Items(P)

LookupResolveCached(i, P) ==
    /\ pc[i] = "await"
    /\ posts' = [posts EXCEPT ![i] = P]
    /\ built' = [built EXCEPT ![i] =
                    Append(@, [FeedPayload(ctx[i], P) EXCEPT !.items = CachedItems(i, P)])]
    /\ pc' = [pc EXCEPT ![i] = "done"]
    /\ returned' = [returned EXCEPT ![i] = Resolved(P)]
    /\ UNCHANGED <<ctx, lookups, thrown>>

\* An empty collection treated as an error: if (!posts.length) throw.
LookupResolveEmptyFails(i, P) ==
    /\ pc[i] = "await"
    /\ posts' = [posts EXCEPT ![i] = P]
    /\ returned' = [returned EXCEPT ![i] = Resolved(P)]
    /\ IF P = <<>>
       THEN /\ pc' = [pc EXCEPT ![i] = "failed"]
            /\ thrown' = [thrown EXCEPT ![i] = Append(@, "NoPosts")]
            /\ UNCHANGED built
       ELSE /\ pc' = [pc EXCEPT ![i] = "done"]
            /\ built' = [built EXCEPT ![i] = Append(@, FeedPayload(ctx[i], P))]
            /\ UNCHANGED thrown
    /\ UNCHANGED <<ctx, lookups>>

\* The categories built in place: post.data.tags.unshift(post.data.category).
TagsUnshifted(post) ==
    IF TagsTruthy(post)
    THEN [post EXCEPT !.data.tags = <<Get(post.data, "category")>> \o @]
    ELSE post

LookupResolveInPlace(i, P) ==
    /\ pc[i] = "await"
    /\ posts' = [posts EXCEPT ![i] = [k \in 1..Len(P) |-> TagsUnshifted(P[k])]]
    /\ built' = [built EXCEPT ![i] = Append(@, FeedPayload(ctx[i], P))]
    /\ pc' = [pc EXCEPT ![i] = "done"]
    /\ returned' = [returned EXCEPT ![i] = Resolved(P)]
    /\ UNCHANGED <<ctx, lookups, thrown>>

\* The lookup resolves with P; GET resumes, maps the posts and returns rss({...}).
LookupResolve(i, P) ==
    /\ pc[i] = "await"
    /\ posts' = [posts EXCEPT ![i] = P]
    /\ built' = [built EXCEPT ![i] = Append(@, FeedPayload(ctx[i], P))]
    /\ pc' = [pc EXCEPT ![i] = "done"]
    /\ returned' = [returned EXCEPT ![i] = Resolved(P)]
    /\ UNCHANGED <<ctx, lookups, thrown>>

\* The failure caught and an empty feed served instead.
LookupRejectEmptyFeed(i, e) ==
    /\ pc[i] = "await"
    /\ pc' = [pc EXCEPT ![i] = "done"]
    /\ returned' = [returned EXCEPT ![i] = Rejected(e)]
    /\ built' = [built EXCEPT ![i] = Append(@, FeedPayload(ctx[i], <<>>))]
    /\ UNCHANGED <<ctx, posts, lookups, thrown>>

\* The lookup retried when it fails.
LookupRejectRetry(i, e) ==
    /\ pc[i] = "await"
    /\ lookups' = [lookups EXCEPT ![i] = Append(@, "posts")]
    /\ UNCHANGED <<pc, ctx, posts, built, returned, thrown>>

\* The lookup rejects with e; the await rethrows it and GET's promise rejects.
LookupReject(i, e) ==
    /\ pc[i] = "await"
    /\ pc' = [pc EXCEPT ![i] = "failed"]
    /\ returned' = [returned EXCEPT ![i] = Rejected(e)]
    /\ thrown' = [thrown EXCEPT ![i] = Append(@, e)]
    /\ UNCHANGED <<ctx, posts, lookups, built>>

\* The request is over; the slot stands for the next request.
Respond(i) ==
    /\ pc[i] \in {"done", "failed"}
    /\ pc' = [pc EXCEPT ![i] = "idle"]
    /\ ctx' = [ctx EXCEPT ![i] = NoContext]
    /\ posts' = [posts EXCEPT ![i] = <<>>]
    /\ lookups' = [lookups EXCEPT ![i] = <<>>]
    /\ built' = [built EXCEPT ![i] = <<>>]
    /\ returned' = [returned EXCEPT ![i] = Pending]
    /\ thrown' = [thrown EXCEPT ![i] = <<>>]

\* Requests served concurrently, over the collections of ServedPool.
Next ==
    \/ \E i \in Invocations, c \in Contexts : Invoke(i, c)
    \/ \E i \in Invocations, P \in ServedCollections : LookupResolve(i, P)
    \/ \E i \in Invocations, e \in LookupErrors : LookupReject(i, e)
    \/ \E i \in Invocations : Respond(i)

Spec == Init /\ [][Next]_vars

\* One request at a time, over every collection of PostPool: the mapping itself.
NextMap ==
    \/ \E c \in Contexts : Invoke(1, c)
    \/ \E P \in PostCollections : LookupResolve(1, P)
    \/ \E e \in LookupErrors : LookupReject(1, e)
    \/ Respond(1)

SpecMap == Init /\ [][NextMap]_vars

TypeOK ==
    /\ pc \in [Invocations -> {"idle", "await", "done", "failed"}]
    /\ \A i \in Invocations : Len(built[i]) <= 1 /\ Len(lookups[i]) <= 1
    /\ \A i \in Invocations : returned[i].kind \in {"pending", "value", "error"}
    /\ \A i \in Invocations : Len(thrown[i]) <= 1

\* The invocations that have called rss(), and the payload of each.
Done == {i \in Invocations : pc[i] = "done"}

Feed(i) == built[i][1]

(***************************************************************************)
(* The mapping: one entry per record, in order, field by field.            *)
(* Checked under SpecMap.                                                  *)
(***************************************************************************)
Records(i) == posts[i]

EntriesOf(i) == Feed(i).items

\* C1: the items handed to rss() have exactly as many entries as the
\* collection the lookup returned has records, the empty collection included.
C1_EntryCount ==
    \A i \in Done : Len(EntriesOf(i)) = Len(Records(i))

C1_Witness ==
    \E i \in Done :
        /\ Len(Records(i)) = MaxPosts
        /\ \E k \in 1..Len(Records(i)) : IsDraft(Records(i)[k])
        /\ Len(EntriesOf(i)) = MaxPosts

\* C2: order preservation: the k-th entry carries the title, date and
\* description of the k-th record; nothing is re-sorted.
C2_OrderPreserved ==
    \A i \in Done : \A k \in 1..Len(Records(i)) :
        /\ k \in DOMAIN EntriesOf(i)
        /\ EntriesOf(i)[k].title = Records(i)[k].data.title
        /\ EntriesOf(i)[k].pubDate = Records(i)[k].data.published
        /\ EntriesOf(i)[k].description = Records(i)[k].data.description

\* A collection whose first record is the older one: a newest-first sort
\* would swap the two entries.
C2_Witness ==
    \E i \in Done :
        /\ Len(Records(i)) >= 2
        /\ Records(i)[1].data.published < Records(i)[2].data.published
        /\ Records(i)[1] = PostTagIsCategory
        /\ Records(i)[2] = PostB
        /\ EntriesOf(i)[1].title = "A post"
        /\ EntriesOf(i)[2].title = "Post B"

\* C3: the link of every entry is "/posts/" followed by the id of its record
\* and nothing else.
C3_Link ==
    \A i \in Done : \A k \in 1..Len(EntriesOf(i)) :
        EntriesOf(i)[k].link = "/posts/" \o Records(i)[k].id

C3_Witness ==
    \E i \in Done : \E k \in 1..Len(EntriesOf(i)) :
        /\ Records(i)[k] = PostRapidoc
        /\ EntriesOf(i)[k].link
             = "/posts/adding-rapidoc-documentation-to-your-fastapi-application"

\* C4: a record whose tags is absent or empty yields categories = [category].
NoTags(post) == ~Has(post.data, "tags") \/ post.data.tags = <<>>

C4_CategoriesWithoutTags ==
    \A i \in Done : \A k \in 1..Len(EntriesOf(i)) :
        NoTags(Records(i)[k])
            => EntriesOf(i)[k].categories = <<Get(Records(i)[k].data, "category")>>

\* Both cases in one collection: tags absent (PostB) and tags empty.
C4_Witness ==
    \E i \in Done :
        /\ Len(Records(i)) >= 2
        /\ Records(i)[1] = PostB
        /\ Records(i)[2] = PostEmptyTags
        /\ EntriesOf(i)[1].categories = <<"JS">>
        /\ EntriesOf(i)[2].categories = <<"JS">>

\* C5: a record with tags [t1, ..., tn], n > 0, yields categories =
\* [category, t1, ..., tn]: category first, tags in order, nothing dropped,
\* also when a tag equals the category.
C5_CategoriesWithTags ==
    \A i \in Done : \A k \in 1..Len(EntriesOf(i)) :
        ~NoTags(Records(i)[k])
            => EntriesOf(i)[k].categories
                 = <<Get(Records(i)[k].data, "category")>> \o Records(i)[k].data.tags

C5_Witness ==
    \E i \in Done : \E k \in 1..Len(EntriesOf(i)) :
        /\ Records(i)[k] = PostTagIsCategory
        /\ EntriesOf(i)[k].categories = <<"Python", "Python", "x">>

\* C6: title, pubDate, description and category of an entry are the title,
\* published, description and category of its record, unchanged.
C6_FieldsCopied ==
    \A i \in Done : \A k \in 1..Len(EntriesOf(i)) :
        /\ EntriesOf(i)[k].title = Get(Records(i)[k].data, "title")
        /\ EntriesOf(i)[k].pubDate = Get(Records(i)[k].data, "published")
        /\ EntriesOf(i)[k].description = Get(Records(i)[k].data, "description")
        /\ EntriesOf(i)[k].category = Get(Records(i)[k].data, "category")

C6_Witness ==
    \E i \in Done : \E k \in 1..Len(EntriesOf(i)) :
        /\ Records(i)[k] = PostA
        /\ EntriesOf(i)[k].title = "Post A"
        /\ EntriesOf(i)[k].pubDate = 20240101
        /\ EntriesOf(i)[k].description = "Desc A"
        /\ EntriesOf(i)[k].category = "Python"

\* C7 as stated: every entry has exactly the six fields of the documented
\* feed shape and no other.
DocumentedFields ==
    {"title", "pubDate", "link", "description", "category", "categories"}

C7_SixFields ==
    \A i \in Done : \A k \in 1..Len(EntriesOf(i)) :
        DOMAIN EntriesOf(i)[k] = DocumentedFields

\* C7 amended: every entry has exactly seven fields, the six documented ones
\* and author.
C7_SevenFields ==
    \A i \in Done : \A k \in 1..Len(EntriesOf(i)) :
        DOMAIN EntriesOf(i)[k] = DocumentedFields \cup {"author"}

\* An entry of a record that has no author still carries the author key.
C7_Witness ==
    \E i \in Done : \E k \in 1..Len(EntriesOf(i)) :
        /\ Records(i)[k] = PostB
        /\ "author" \in DOMAIN EntriesOf(i)[k]
        /\ EntriesOf(i)[k].author = Undefined

(***************************************************************************)
(* The feed as a whole, over concurrent invocations.  Checked under Spec.  *)
(***************************************************************************)
\* C8: idempotence: two invocations with the same context whose lookups
\* returned the same collection hand rss() identical payloads.
C8_Idempotent ==
    \A i \in Done : \A j \in Done :
        (ctx[i] = ctx[j] /\ posts[i] = posts[j]) => Feed(i) = Feed(j)

C8_Witness ==
    \E i \in Done : \E j \in Done :
        /\ i # j
        /\ ctx[i] = ctx[j]
        /\ posts[i] = posts[j]
        /\ posts[i] = <<PostB, PostA>>
        /\ Feed(i) = Feed(j)

\* C9 as stated: title, description and site of the feed are all literals,
\* the same for any two invocations whatever their contexts.
C9_AllThreeConstant ==
    \A i \in Done : \A j \in Done :
        /\ Feed(i).title = Feed(j).title
        /\ Feed(i).description = Feed(j).description
        /\ Feed(i).site = Feed(j).site

\* C9 amended: title and description of the feed are the literal "a" in every
\* invocation, whatever the context and the site configuration; site is not
\* a literal.
C9_TitleDescriptionLiteral ==
    \A i \in Done :
        /\ Feed(i).title = "a"
        /\ Feed(i).description = "a"

\* Two invocations with different contexts: same title and description,
\* neither the configured one, and different sites.
C9_Witness ==
    \E i \in Done : \E j \in Done :
        /\ ctx[i].site # ctx[j].site
        /\ Feed(i).title = "a" /\ Feed(j).title = "a"
        /\ Feed(i).description = "a" /\ Feed(j).description = "a"
        /\ Feed(i).title # YukinaConfig.title
        /\ Feed(i).description # YukinaConfig.description
        /\ Feed(i).site # Feed(j).site

\* C10: the site of the feed is the site of the context GET was called with.
C10_SiteFromContext ==
    \A i \in Done : Feed(i).site = ctx[i].site

\* A request whose site is not the configured one.
C10_Witness ==
    \E i \in Done :
        /\ ctx[i].site = "http://localhost:4321"
        /\ ctx[i].site # YukinaConfig.site
        /\ Feed(i).site = "http://localhost:4321"

(***************************************************************************)
(* The calls GET makes: the lookup, then the builder.  Checked under Spec. *)
(***************************************************************************)
\* C11: every invocation calls the collection lookup exactly once, with the
\* name "posts", and never again, whether the lookup succeeds or fails.
C11_OneLookup ==
    \A i \in Invocations :
        /\ pc[i] = "idle" => lookups[i] = <<>>
        /\ pc[i] \in {"await", "done", "failed"} => lookups[i] = <<"posts">>

\* One invocation whose lookup failed next to one whose lookup succeeded.
C11_Witness ==
    \E i \in Invocations : \E j \in Invocations :
        /\ pc[i] = "failed" /\ returned[i].kind = "error"
        /\ lookups[i] = <<"posts">>
        /\ pc[j] = "done" /\ returned[j].kind = "value"
        /\ lookups[j] = <<"posts">>

\* C12: GET has no side effect on its input: when an invocation resumes and
\* returns, the collection the lookup resolved with (every record, its tags
\* included) stands as it was returned, and the context is unchanged.
C12_InputUnchanged ==
    [][\A i \in Invocations :
          (pc[i] = "await" /\ pc'[i] = "done")
              => (posts'[i] = returned'[i].value /\ ctx'[i] = ctx[i])]_vars

\* An invocation that has mapped a record with tags.
C12_Witness ==
    \E i \in Done :
        /\ returned[i] = Resolved(<<PostB, PostA>>)
        /\ posts[i] = <<PostB, PostA>>
        /\ posts[i][2].data.tags = <<"x", "y">>
        /\ ctx[i] \in Contexts
        /\ Feed(i).items[2].categories = <<"Python", "x", "y">>

\* C13: when the lookup fails GET does not recover: the invocation ends in
\* failure with the lookup's error, rss() is not called and no feed, not
\* even an empty one, is produced.
C13_NoRecovery ==
    \A i \in Invocations :
        returned[i].kind = "error"
            => /\ pc[i] = "failed"
               /\ thrown[i] = <<returned[i].error>>
               /\ built[i] = <<>>

C13_Witness ==
    \E i \in Invocations :
        /\ returned[i] = Rejected("UnknownCollection")
        /\ pc[i] = "failed"
        /\ thrown[i] = <<"UnknownCollection">>
        /\ built[i] = <<>>

(***************************************************************************)
(* The mapping on records off the schema, and the fields that play no      *)
(* part.  Checked under SpecMap.                                           *)
(***************************************************************************)
TagsOrNone(post) == IF Has(post.data, "tags") THEN post.data.tags ELSE <<>>

\* C14: a record without category is neither rejected nor defaulted: its
\* entry stands in its position with category undefined and categories =
\* [undefined, ...tags]; the entries of the other records are as they are
\* without it.
C14_MissingCategory ==
    \A i \in Done : \A k \in 1..Len(Records(i)) :
        ~Has(Records(i)[k].data, "category")
            => /\ Len(EntriesOf(i)) = Len(Records(i))
               /\ EntriesOf(i)[k].title = Records(i)[k].data.title
               /\ EntriesOf(i)[k].category = Undefined
               /\ EntriesOf(i)[k].categories
                    = <<Undefined>> \o TagsOrNone(Records(i)[k])
               /\ \A m \in (1..Len(Records(i))) \ {k} :
                      Has(Records(i)[m].data, "category")
                          => /\ EntriesOf(i)[m].title = Records(i)[m].data.title
                             /\ EntriesOf(i)[m].category
                                  = Records(i)[m].data.category
                             /\ EntriesOf(i)[m].categories
                                  = <<Records(i)[m].data.category>>
                                      \o TagsOrNone(Records(i)[m])

C14_Witness ==
    \E i \in Done :
        /\ Records(i) = <<PostA, PostNoCategory>>
        /\ EntriesOf(i)[2].title = "Post E"
        /\ EntriesOf(i)[2].category = Undefined
        /\ EntriesOf(i)[2].categories = <<Undefined, "x">>
        /\ EntriesOf(i)[1].category = "Python"
        /\ EntriesOf(i)[1].categories = <<"Python", "x", "y">>

(***************************************************************************)
(* Invocations against one another.  Checked under Spec.                   *)
(***************************************************************************)
Returned(i) == returned[i].value

\* C15: the feed is recomputed on every request: the items of each
\* invocation are those of the collection its own lookup returned, record
\* for record, whatever other invocations were given.
C15_Recomputed ==
    \A i \in Done :
        /\ Len(EntriesOf(i)) = Len(Returned(i))
        /\ \A k \in 1..Len(Returned(i)) :
               /\ EntriesOf(i)[k].link = "/posts/" \o Returned(i)[k].id
               /\ EntriesOf(i)[k].title = Returned(i)[k].data.title

\* The collection changed between two requests: each feed lists its own.
C15_Witness ==
    \E i \in Done : \E j \in Done :
        /\ Returned(i) = <<PostA>>
        /\ Returned(j) = <<PostB, PostA>>
        /\ Len(EntriesOf(i)) = 1
        /\ EntriesOf(i)[1].link = "/posts/a"
        /\ Len(EntriesOf(j)) = 2
        /\ EntriesOf(j)[1].link = "/posts/b"
        /\ EntriesOf(j)[2].link = "/posts/a"

\* What one invocation holds.
Slot(i) == <<pc[i], ctx[i], posts[i], lookups[i], built[i], returned[i], thrown[i]>>

\* C16: invocations that interleave at the await share no mutable state: a
\* step of one leaves every other one as it was, and the payload of each is
\* the one it produces alone from the context it was called with and the
\* collection its lookup returned.
C16_NoSharedState ==
    [][\A i \in Invocations :
          /\ pc'[i] = pc[i] => Slot(i)' = Slot(i)
          /\ pc'[i] = "done"
                => built'[i] = <<FeedPayload(ctx'[i], returned'[i].value)>>]_vars

\* One invocation has returned its feed while another, called with a
\* different context, is suspended at the await.
C16_Witness ==
    \E i \in Done : \E j \in Invocations :
        /\ pc[j] = "await"
        /\ lookups[j] = <<"posts">>
        /\ ctx[j].site # ctx[i].site
        /\ Returned(i) = <<PostB>>
        /\ Feed(i).site = ctx[i].site
        /\ Len(Feed(i).items) = 1
        /\ Feed(i).items[1].link = "/posts/b"

\* C17: within one invocation rss() is called only once the lookup has
\* resolved, it is called exactly once, and the items it is given are built
\* from the records the lookup returned.
C17_BuildAfterLookup ==
    \A i \in Invocations :
        /\ pc[i] \in {"idle", "await", "failed"} => built[i] = <<>>
        /\ pc[i] = "done" => Len(built[i]) = 1
        /\ built[i] # <<>>
              => /\ returned[i].kind = "value"
                 /\ lookups[i] = <<"posts">>
                 /\ Len(built[i][1].items) = Len(returned[i].value)
                 /\ \A k \in 1..Len(returned[i].value) :
                        /\ built[i][1].items[k].pubDate
                             = returned[i].value[k].data.published
                        /\ built[i][1].items[k].description
                             = returned[i].value[k].data.description

\* One invocation still waiting for its lookup with nothing built, one that
\* has built its feed from the two records returned to it.
C17_Witness ==
    \E i \in Invocations : \E j \in Invocations :
        /\ pc[i] = "await" /\ returned[i] = Pending /\ built[i] = <<>>
        /\ pc[j] = "done" /\ returned[j] = Resolved(<<PostA, PostB>>)
        /\ Len(built[j]) = 1
        /\ built[j][1].items[1].description = "Desc A"
        /\ built[j][1].items[2].description = "Desc B"

(***************************************************************************)
(* Ids, drafts and authors.  Checked under SpecMap.                        *)
(***************************************************************************)
\* C18: ids are not checked for uniqueness and nothing is deduplicated: two
\* records with the same id yield two entries with the same link, each in
\* the position of its record.
C18_DuplicateIdsKept ==
    \A i \in Done : \A k \in 1..Len(Records(i)) : \A m \in 1..Len(Records(i)) :
        (k < m /\ Records(i)[k].id = Records(i)[m].id)
            => /\ Len(EntriesOf(i)) = Len(Records(i))
               /\ EntriesOf(i)[k].link = "/posts/" \o Records(i)[k].id
               /\ EntriesOf(i)[m].link = EntriesOf(i)[k].link
               /\ EntriesOf(i)[k].title = Records(i)[k].data.title
               /\ EntriesOf(i)[m].title = Records(i)[m].data.title

\* Two different records under the id "a".
C18_Witness ==
    \E i \in Done :
        /\ Records(i) = <<PostNoCategory, PostADraft>>
        /\ Len(EntriesOf(i)) = 2
        /\ EntriesOf(i)[1].link = "/posts/a"
        /\ EntriesOf(i)[2].link = "/posts/a"
        /\ EntriesOf(i)[1].title = "Post E"
        /\ EntriesOf(i)[2].title = "Post A"

\* Two records that differ at most in draft and cover.
SameButDraftAndCover(r1, r2) ==
    /\ r1.id = r2.id
    /\ DOMAIN r1.data \ {"draft", "cover"} = DOMAIN r2.data \ {"draft", "cover"}
    /\ \A key \in DOMAIN r1.data \ {"draft", "cover"} :
           r1.data[key] = r2.data[key]

\* C19: nothing is filtered by draft status, and draft and cover have no
\* influence on the feed: a draft has its entry, in its position, and that
\* entry is the one the same record yields with draft = false.
C19_DraftIgnored ==
    \A i \in Done :
        /\ (\E k \in 1..Len(Records(i)) : IsDraft(Records(i)[k]))
              => Len(EntriesOf(i)) = Len(Records(i))
        /\ \A k \in 1..Len(Records(i)) :
               IsDraft(Records(i)[k])
                   => /\ k \in DOMAIN EntriesOf(i)
                      /\ EntriesOf(i)[k].link = "/posts/" \o Records(i)[k].id
                      /\ \A m \in 1..Len(Records(i)) :
                             SameButDraftAndCover(Records(i)[k], Records(i)[m])
                                 => /\ m \in DOMAIN EntriesOf(i)
                                    /\ EntriesOf(i)[m] = EntriesOf(i)[k]

\* The draft of Post A, with a cover, next to Post A itself.
C19_Witness ==
    \E i \in Done :
        /\ Records(i) = <<PostADraft, PostA>>
        /\ Records(i)[1].data.draft = TRUE
        /\ Records(i)[2].data.draft = FALSE
        /\ Has(Records(i)[1].data, "cover")
        /\ ~Has(Records(i)[2].data, "cover")
        /\ Len(EntriesOf(i)) = 2
        /\ EntriesOf(i)[1] = EntriesOf(i)[2]

\* C20: every entry carries an author field, the author of its record, and
\* undefined when the record has none.
C20_Author ==
    \A i \in Done : \A k \in 1..Len(EntriesOf(i)) :
        /\ "author" \in DOMAIN EntriesOf(i)[k]
        /\ Has(Records(i)[k].data, "author")
              => EntriesOf(i)[k].author = Records(i)[k].data.author
        /\ ~Has(Records(i)[k].data, "author")
              => EntriesOf(i)[k].author = Undefined

\* A record with an author next to one without.
C20_Witness ==
    \E i \in Done :
        /\ Records(i) = <<PostNoCategory, PostBare>>
        /\ EntriesOf(i)[1].author = "Someone else"
        /\ ~Has(Records(i)[2].data, "author")
        /\ EntriesOf(i)[2].author = Undefined

\* C21: when the ids of the records are pairwise distinct, so are the links
\* of the entries.
DistinctIds(list) ==
    \A k \in 1..Len(list) : \A m \in 1..Len(list) :
        k # m => list[k].id # list[m].id

C21_DistinctLinks ==
    \A i \in Done :
        DistinctIds(Records(i))
            => /\ Len(EntriesOf(i)) = Len(Records(i))
               /\ \A k \in 1..Len(EntriesOf(i)) : \A m \in 1..Len(EntriesOf(i)) :
                      k # m => EntriesOf(i)[k].link # EntriesOf(i)[m].link

\* Two records that agree in category and author and differ in id.
C21_Witness ==
    \E i \in Done :
        /\ Records(i) = <<PostRapidoc, PostTagIsCategory>>
        /\ DistinctIds(Records(i))
        /\ EntriesOf(i)[2].link = "/posts/c"
        /\ EntriesOf(i)[1].link # EntriesOf(i)[2].link

(***************************************************************************)
(* The items against the context, the other records and the empty          *)
(* collection.  Checked under Spec.                                        *)
(***************************************************************************)
\* C22: the items do not depend on the request context: two invocations
\* over the same collection produce the same items, with the relative links
\* "/posts/<id>", whatever their sites; their payloads differ at most in site.
C22_ItemsIgnoreContext ==
    \A i \in Done : \A j \in Done :
        Returned(i) = Returned(j)
            => /\ EntriesOf(i) = EntriesOf(j)
               /\ [Feed(i) EXCEPT !.site = Feed(j).site] = Feed(j)
               /\ \A k \in 1..Len(EntriesOf(i)) :
                      EntriesOf(i)[k].link = "/posts/" \o Returned(i)[k].id

\* The same two records served under two different sites.
C22_Witness ==
    \E i \in Done : \E j \in Done :
        /\ ctx[i].site # ctx[j].site
        /\ Returned(i) = <<PostA, PostB>>
        /\ Returned(j) = <<PostA, PostB>>
        /\ EntriesOf(i) = EntriesOf(j)
        /\ EntriesOf(i)[1].link = "/posts/a"
        /\ Feed(i).site # Feed(j).site

\* C23: each entry depends only on its own record: over two collections of
\* equal length that differ only in the record at one position, the entries
\* at every other position are identical.
C23_EntryOfOwnRecord ==
    \A i \in Done : \A j \in Done :
        Len(Returned(i)) = Len(Returned(j))
            => \A p \in 1..Len(Returned(i)) :
                   (/\ Returned(i)[p] # Returned(j)[p]
                    /\ \A k \in (1..Len(Returned(i))) \ {p} :
                           Returned(i)[k] = Returned(j)[k])
                       => /\ Len(EntriesOf(i)) = Len(EntriesOf(j))
                          /\ \A k \in (1..Len(Returned(i))) \ {p} :
                                 EntriesOf(i)[k] = EntriesOf(j)[k]

\* Two collections that differ in their first record only.
C23_Witness ==
    \E i \in Done : \E j \in Done :
        /\ Returned(i) = <<PostB, PostA>>
        /\ Returned(j) = <<PostA, PostA>>
        /\ EntriesOf(i)[1] # EntriesOf(j)[1]
        /\ EntriesOf(i)[2] = EntriesOf(j)[2]
        /\ EntriesOf(i)[2].categories = <<"Python", "x", "y">>

\* C24: for the empty collection GET does not fail: it calls rss() with an
\* empty items sequence and with the title, description and site it uses
\* for a non-empty collection.
C24_EmptyCollection ==
    \A i \in Invocations :
        returned[i] = Resolved(<<>>)
            => /\ pc[i] = "done"
               /\ thrown[i] = <<>>
               /\ Len(built[i]) = 1
               /\ built[i][1].items = <<>>
               /\ built[i][1].site = ctx[i].site
               /\ \A j \in Done :
                      (Returned(j) # <<>> /\ ctx[j] = ctx[i])
                          => /\ built[i][1].title = Feed(j).title
                             /\ built[i][1].description = Feed(j).description
                             /\ built[i][1].site = Feed(j).site

\* An empty and a non-empty collection served under the same context.
C24_Witness ==
    \E i \in Done : \E j \in Done :
        /\ returned[i] = Resolved(<<>>)
        /\ Returned(j) = <<PostA>>
        /\ ctx[i] = ctx[j]
        /\ Feed(i).items = <<>>
        /\ Len(Feed(j).items) = 1
        /\ Feed(i).title = Feed(j).title
        /\ Feed(i).site = Feed(j).site

(***************************************************************************)
(* The shape of categories.  Checked under SpecMap.                        *)
(***************************************************************************)
\* C25: in every entry categories is non-empty, its first element is the
\* entry's own category, and its length is 1 plus the number of tags of the
\* record (1 when tags is absent).
C25_CategoriesShape ==
    \A i \in Done : \A k \in 1..Len(EntriesOf(i)) :
        /\ EntriesOf(i)[k].categories # <<>>
        /\ EntriesOf(i)[k].categories[1] = EntriesOf(i)[k].category
        /\ Len(EntriesOf(i)[k].categories)
             = 1 + (IF Has(Records(i)[k].data, "tags")
                    THEN Len(Records(i)[k].data.tags) ELSE 0)

\* A record with two tags next to one with no tags and no category.
C25_Witness ==
    \E i \in Done :
        /\ Records(i) = <<PostRapidoc, PostBare>>
        /\ Len(EntriesOf(i)[1].categories) = 3
        /\ EntriesOf(i)[1].categories[1] = "Python"
        /\ EntriesOf(i)[1].category = "Python"
        /\ Len(EntriesOf(i)[2].categories) = 1
        /\ EntriesOf(i)[2].categories[1] = Undefined
        /\ EntriesOf(i)[2].category = Undefined

====
